---- MODULE Spec2Model ----
(***************************************************************************)
(* Model of the ingestion path of light.py: connect_db, create_new_table,  *)
(* get_active_table and push_data_to_db, run by the manual trigger and by  *)
(* the background scheduler against one MySQL database.                    *)
(*                                                                         *)
(* The database is a set of shard tables.  A table holds explicit rows    *)
(* (made from the records of the model's universe) and `pad` further rows  *)
(* whose keys lie outside that universe (bulk batches of new strikes).     *)
(* Tables use the server's default engine (InnoDB) and the connector's     *)
(* default autocommit = False: inserts are durable at conn.commit() and    *)
(* are rolled back when the connection is closed without a commit.         *)
(***************************************************************************)
EXTENDS Integers, Sequences, FiniteSets, TLC

VARIABLES tables, now, last, pc, batch, active_table, created, idx,
          new_records, txn, conns, app, task, view

vars == <<tables, now, last, pc, batch, active_table, created, idx,
          new_records, txn, conns, app, task, view>>

(***************************************************************************)
(* Bounds of the model.                                                    *)
(***************************************************************************)
\* longest explicit batch handed to push_data_to_db
MaxBatch == 2
\* last second of the wall clock
MaxClock == 2
\* bulk batches the API delivers in all
MaxBulks == 1

\* rollover threshold of get_active_table (count < 50000)
Capacity == 50000

(***************************************************************************)
(* Text fields of the API records, as sequences of characters, and the     *)
(* conversions push_data_to_db applies to them.                            *)
(***************************************************************************)
\* None, where get_active_table returns it
NoTable == <<>>

Digits == <<"0", "1", "2", "3", "4", "5", "6", "7", "8", "9">>

IsDigit(c) == \E i \in 1..10 : Digits[i] = c

DigitVal(c) == (CHOOSE i \in 1..10 : Digits[i] = c) - 1

AllDigits(s) == \A i \in 1..Len(s) : IsDigit(s[i])

RECURSIVE NatOf(_)
NatOf(s) ==
    IF s = <<>> THEN 0
    ELSE NatOf(SubSeq(s, 1, Len(s) - 1)) * 10 + DigitVal(s[Len(s)])

RECURSIVE Pow10(_)
Pow10(n) == IF n = 0 THEN 1 ELSE 10 * Pow10(n - 1)

\* fractional digits of the latitude and longitude columns, DECIMAL(10, 7)
CoordDigits == 7
\* fractional digits of the peak_current and ic_height columns, DECIMAL(10, 2)
AmountDigits == 2

\* fractional digits a parsed float keeps in the model: those of the widest
\* column (the texts of the universe have no more)
FloatDigits == CoordDigits

\* int(text) accepts decimal digits only, and raises ValueError otherwise
IntOk(s) == s # <<>> /\ AllDigits(s)

ParseInt(s) == NatOf(s)

\* the position of the decimal point of a text (past its end when it has none)
PointAt(s) ==
    LET dots == {i \in 1..Len(s) : s[i] = "."}
    IN  IF dots = {} THEN Len(s) + 1 ELSE CHOOSE i \in dots : \A j \in dots : i <= j

\* float(text) accepts digits with at most one point, and raises ValueError otherwise
FloatOk(s) ==
    LET ip == SubSeq(s, 1, PointAt(s) - 1)
        fp == SubSeq(s, PointAt(s) + 1, Len(s))
    IN  /\ AllDigits(ip) /\ AllDigits(fp)
        /\ Len(ip) + Len(fp) > 0
        /\ Len(fp) <= FloatDigits

\* float(text): the value in units of 10^-7
ParseFloat(s) ==
    LET ip == SubSeq(s, 1, PointAt(s) - 1)
        fp == SubSeq(s, PointAt(s) + 1, Len(s))
    IN  NatOf(ip) * Pow10(FloatDigits) + NatOf(fp) * Pow10(FloatDigits - Len(fp))

\* a float stored in a DECIMAL(10, d) column: rounded half up to d digits
ToDecimal(x, d) ==
    LET unit == Pow10(FloatDigits - d)
    IN  (x + unit \div 2) \div unit

\* the digit groups of a text and the characters between them
RECURSIVE Groups(_, _, _)
Groups(s, cur, acc) ==
    IF s = <<>> THEN Append(acc, cur)
    ELSE IF IsDigit(Head(s)) THEN Groups(Tail(s), Append(cur, Head(s)), acc)
    ELSE Groups(Tail(s), <<>>, Append(acc, cur))

Separators(s) == SelectSeq(s, LAMBDA c : ~IsDigit(c))

\* datetime.strptime(text, '%Y-%m-%d %H:%M:%S') raises ValueError unless the text
\* is six digit groups (a four-digit year, the others one or two digits, each in
\* its range) with exactly these separators
TimeOk(s) ==
    LET g == Groups(s, <<>>, <<>>)
    IN  /\ Separators(s) = <<"-", "-", " ", ":", ":">>
        /\ Len(g) = 6
        /\ Len(g[1]) = 4
        /\ \A i \in 2..6 : Len(g[i]) \in 1..2
        /\ NatOf(g[2]) \in 1..12
        /\ NatOf(g[3]) \in 1..31
        /\ NatOf(g[4]) \in 0..23
        /\ NatOf(g[5]) \in 0..59
        /\ NatOf(g[6]) \in 0..61

\* the datetime of a text: <<Y, M, D, h, m, s>>
ParseTime(s) ==
    LET g == Groups(s, <<>>, <<>>)
    IN  [i \in 1..6 |-> NatOf(g[i])]

(***************************************************************************)
(* The records of the model's universe: two texts of one strike (the same  *)
(* latitude, longitude and time, written differently, with different       *)
(* sensor counts), a second strike, and a record whose time is written in  *)
(* ISO form, which strptime rejects.                                       *)
(***************************************************************************)
TimePadded ==
    <<"2", "0", "2", "4", "-", "0", "7", "-", "0", "1", " ",
      "1", "0", ":", "0", "5", ":", "0", "0">>

TimePlain ==
    <<"2", "0", "2", "4", "-", "7", "-", "1", " ", "1", "0", ":", "5", ":", "0">>

TimeIso ==
    <<"2", "0", "2", "4", "-", "0", "7", "-", "0", "1", "T",
      "1", "0", ":", "0", "5", ":", "0", "0">>

Strike(lat, time, sensors) ==
    [latitude |-> lat, longitude |-> <<"8", "0">>, time |-> time,
     flash_type |-> "G", peak_current |-> <<"1", "2", ".", "5">>,
     ic_height |-> <<"0">>, number_of_sensors |-> sensors]

RecA3 == Strike(<<"2", "6", ".", "5">>, TimePadded, <<"3">>)
RecA4 == Strike(<<"2", "6", ".", "5", "0">>, TimePlain, <<"4">>)
RecB3 == Strike(<<"2", "7">>, TimePadded, <<"3">>)
RecBadTime == Strike(<<"2", "6", ".", "5">>, TimeIso, <<"3">>)

Records == {RecA3, RecA4, RecB3, RecBadTime}

\* further records of the API payloads: outside the box of filter_up_data, on its
\* boundary, and with a field that does not parse
RecOut == [RecB3 EXCEPT !.latitude = <<"1", "0">>]
RecEdgeLow == [RecB3 EXCEPT !.latitude = <<"2", "4", ".", "0">>,
                            !.longitude = <<"7", "7">>]
RecEdgeHigh == [RecB3 EXCEPT !.latitude = <<"2", "8">>,
                             !.longitude = <<"8", "4", ".", "0">>]
RecJustOut == [RecB3 EXCEPT !.latitude = <<"2", "8", ".", "0", "0", "0", "0", "0", "0", "1">>]
RecOutLon == [RecB3 EXCEPT !.longitude = <<"8", "4", ".", "5">>]
RecBadLat == [RecB3 EXCEPT !.latitude = <<"2", "7", ",", "5">>]
RecBadSensors == [RecB3 EXCEPT !.number_of_sensors = <<"3", ".", "0">>]
RecOutBadTime == [RecOut EXCEPT !.time = TimeIso]
RecOutBadLon == [RecOut EXCEPT !.longitude = <<"8", "0", "E">>]

MoreRecords ==
    {RecOut, RecEdgeLow, RecEdgeHigh, RecJustOut, RecOutLon, RecBadLat,
     RecBadSensors, RecOutBadTime, RecOutBadLon}

Universe == Records \cup MoreRecords

\* lines 126-132: the parameter tuple of one INSERT
Params(record) ==
    [latitude |-> ParseFloat(record.latitude),
     longitude |-> ParseFloat(record.longitude),
     time |-> ParseTime(record.time),
     flash_type |-> record.flash_type,
     peak_current |-> ParseFloat(record.peak_current),
     ic_height |-> ParseFloat(record.ic_height),
     number_of_sensors |-> ParseInt(record.number_of_sensors)]

\* whether building that tuple raises ValueError
Raises(record) ==
    ~ /\ FloatOk(record.latitude)
      /\ FloatOk(record.longitude)
      /\ TimeOk(record.time)
      /\ FloatOk(record.peak_current)
      /\ FloatOk(record.ic_height)
      /\ IntOk(record.number_of_sensors)

\* the row the server makes of the parameters, by the column types
Row(record) ==
    LET p == Params(record)
    IN  [latitude |-> ToDecimal(p.latitude, CoordDigits),
         longitude |-> ToDecimal(p.longitude, CoordDigits),
         time |-> p.time,
         flash_type |-> p.flash_type,
         peak_current |-> ToDecimal(p.peak_current, AmountDigits),
         ic_height |-> ToDecimal(p.ic_height, AmountDigits),
         number_of_sensors |-> p.number_of_sensors]

\* the conversions of the universe's records, computed once
Malformed == {r \in Universe : Raises(r)}

RowOf == [r \in Universe \ Malformed |-> Row(r)]

\* UNIQUE KEY unique_strike (latitude, longitude, time)
Key(row) == <<row.latitude, row.longitude, row.time>>

(***************************************************************************)
(* Batches: a sequence of records of the universe, or a bulk batch of      *)
(* `fresh` well-formed records whose keys were never seen before.          *)
(***************************************************************************)
RECURSIVE SeqsUpTo(_, _)
SeqsUpTo(S, n) ==
    IF n = 0 THEN {<<>>}
    ELSE LET shorter == SeqsUpTo(S, n - 1)
         IN  shorter \cup {Append(s, x) : s \in shorter, x \in S}

BulkSizes == {Capacity - 1}

Batches ==
    {[fresh |-> 0, recs |-> s] : s \in SeqsUpTo(Records, MaxBatch)}
        \cup {[fresh |-> k, recs |-> <<>>] : k \in BulkSizes}

EmptyList == [fresh |-> 0, recs |-> <<>>]

Size(list) == list.fresh + Len(list.recs)

\* the store errors one cycle can meet, and where
Faults(b) ==
    {[kind |-> k, at |-> 0] : k \in {"none", "connect", "resolve", "create", "commit"}}
        \cup {[kind |-> "insert", at |-> i] : i \in 1..Len(b.recs)}

(***************************************************************************)
(* The store: table name -> [pad, rows].                                   *)
(***************************************************************************)
\* strftime of the clock: zero-padded digits
TableName(clock) == <<clock \div 10, clock % 10>>

\* string order of two names of equal length
LexLess(a, b) ==
    \E i \in 1..Len(a) :
        /\ a[i] < b[i]
        /\ \A j \in 1..(i - 1) : a[j] = b[j]

EmptyTable == [pad |-> 0, rows |-> {}]

Count(t) == t.pad + Cardinality(t.rows)

\* lines 38-58: CREATE TABLE IF NOT EXISTS; a store error is logged and swallowed
create_new_table(T, name, failed) ==
    IF failed \/ name \in DOMAIN T THEN T
    ELSE [n \in DOMAIN T \cup {name} |-> IF n = name THEN EmptyTable ELSE T[n]]

\* the comparison of line 70 turned around
HasRoomInverted(t) == Count(t) >= Capacity

\* line 70: count < 50000
HasRoom(t) == Count(t) < Capacity

\* the tables in ascending order of name: the first with room is the oldest
OldestWithRoom(T, names) ==
    LET room == {n \in names : HasRoom(T[n])}
    IN  IF room = {} THEN NoTable
        ELSE CHOOSE n \in room : \A m \in room : m = n \/ LexLess(n, m)

\* lines 67-71: sorted(tables, reverse=True), return the first with count < 50000
FirstWithRoom(T, names) ==
    LET room == {n \in names : HasRoom(T[n])}
    IN  IF room = {} THEN NoTable
        ELSE CHOOSE n \in room : \A m \in room : m = n \/ LexLess(m, n)

\* lines 61-80: [tables, active, created]
get_active_table(T, clock, f) ==
    IF f.kind = "resolve" THEN [tables |-> T, active |-> NoTable, created |-> FALSE]
    ELSE LET found == FirstWithRoom(T, DOMAIN T)
         IN  IF found # NoTable
             THEN [tables |-> T, active |-> found, created |-> FALSE]
             ELSE [tables |-> create_new_table(T, TableName(clock), f.kind = "create"),
                   active |-> TableName(clock), created |-> TRUE]

\* REPLACE in place of INSERT IGNORE: the later row takes the key
InsertReplace(rows, row) ==
    [rows |-> {x \in rows : Key(x) # Key(row)} \cup {row}, rowcount |-> 1]

\* lines 121-124: INSERT IGNORE of one row into the rows of the table
InsertIgnore(rows, row) ==
    IF \E x \in rows : Key(x) = Key(row)
    THEN [rows |-> rows, rowcount |-> 0]
    ELSE [rows |-> rows \cup {row}, rowcount |-> 1]

\* a loop that skips a record whose fields do not parse and goes on
RECURSIVE InsertLoopSkips(_, _, _, _, _, _)
InsertLoopSkips(exists, committed, own, recs, i, f) ==
    IF i > Len(recs) THEN [status |-> "done", own |-> own, new |-> <<>>]
    ELSE IF recs[i] \in Malformed
         THEN InsertLoopSkips(exists, committed, own, recs, i + 1, f)
    ELSE IF ~exists \/ (f.kind = "insert" /\ f.at = i)
         THEN [status |-> "store_error", own |-> own, new |-> <<>>]
    ELSE LET ins  == InsertIgnore(committed \cup own, RowOf[recs[i]])
             rest == InsertLoopSkips(exists, committed, ins.rows \ committed, recs, i + 1, f)
         IN  [rest EXCEPT !.new = IF ins.rowcount > 0 THEN <<recs[i]>> \o @ ELSE @]

\* lines 120-135: the loop from record i on; own is the transaction's rows
RECURSIVE InsertLoop(_, _, _, _, _, _)
InsertLoop(exists, committed, own, recs, i, f) ==
    IF i > Len(recs) THEN [status |-> "done", own |-> own, new |-> <<>>]
    ELSE IF recs[i] \in Malformed THEN [status |-> "value_error", own |-> own, new |-> <<>>]
    ELSE IF ~exists \/ (f.kind = "insert" /\ f.at = i)
         THEN [status |-> "store_error", own |-> own, new |-> <<>>]
    ELSE LET ins  == InsertIgnore(committed \cup own, RowOf[recs[i]])
             rest == InsertLoop(exists, committed, ins.rows \ committed, recs, i + 1, f)
         IN  [rest EXCEPT !.new = IF ins.rowcount > 0 THEN <<recs[i]>> \o @ ELSE @]

\* line 137: conn.commit(), the transaction's rows become rows of the table
Commit(T, name, own, pad) ==
    IF name \in DOMAIN T
    THEN [T EXCEPT ![name] = [pad |-> @.pad + pad, rows |-> @.rows \cup own]]
    ELSE T

\* a connection in autocommit mode: what was inserted stays
CloseKeepsRows(T, name, own, pad) == Commit(T, name, own, pad)

\* line 142: conn.close() with the transaction open; the server rolls it back
CloseUncommitted(T, name, own, pad) == T

(***************************************************************************)
(* State.                                                                  *)
(*   tables        the committed content of the database                   *)
(*   now           the wall clock, in seconds                              *)
(*   last          the latest whole call of push_data_to_db (PushCycle)    *)
(*   pc .. txn     the calls in progress, one per caller, where the calls  *)
(*                 of the two callers interleave (SpecThreads)             *)
(*   conns         the callers whose call holds an open connection         *)
(*   app           the script and its scheduler (SpecApp)                  *)
(*   task          the latest run of scheduled_task (SpecApp)              *)
(*   view          the latest result of the read query of main (SpecApp)   *)
(***************************************************************************)
Callers == {"manual", "timer"}

EmptyStore == [n \in {} |-> EmptyTable]

NoCall ==
    [batch |-> EmptyList, outcome |-> "none", ret |-> EmptyList,
     active |-> NoTable, created |-> FALSE]

\* the script has not been run, and nothing of it has
NotStarted == [script |-> "off", scheduler |-> "none"]

NoTask ==
    [who |-> "none", data |-> [shape |-> "none", fresh |-> 0, recs |-> <<>>],
     outcome |-> "none", batch |-> EmptyList, push |-> "none", n |-> 0]

NoView == [outcome |-> "none", range |-> "none", rows |-> {}, pad |-> 0]

Init ==
    /\ tables = EmptyStore
    /\ now = 1
    /\ last = NoCall
    /\ pc = [p \in Callers |-> "idle"]
    /\ batch = [p \in Callers |-> EmptyList]
    /\ active_table = [p \in Callers |-> NoTable]
    /\ created = [p \in Callers |-> FALSE]
    /\ idx = [p \in Callers |-> 0]
    /\ new_records = [p \in Callers |-> EmptyList]
    /\ txn = [p \in Callers |-> EmptyTable]
    /\ conns = {}
    /\ app = NotStarted
    /\ task = NoTask
    /\ view = NoView

\* the rows of bulk batches stored so far
RECURSIVE PadSum(_, _)
PadSum(T, names) ==
    IF names = {} THEN 0
    ELSE LET n == CHOOSE n \in names : TRUE
         IN  T[n].pad + PadSum(T, names \ {n})

\* the API has a further batch b to deliver
Delivers(b) ==
    b.fresh > 0 => PadSum(tables, DOMAIN tables) + b.fresh <= MaxBulks * (Capacity - 1)

inflight == <<pc, batch, active_table, created, idx, new_records, txn, conns>>

\* the state of the script, outside push_data_to_db
appvars == <<app, task, view>>

\* the clock advances
Tick ==
    /\ now < MaxClock
    /\ now' = now + 1
    /\ UNCHANGED <<tables, last, inflight, appvars>>

(***************************************************************************)
(* One whole call of push_data_to_db, lines 108-144, with no other writer  *)
(* in between.  The result: the store after the call, what the call        *)
(* returned, and how it ended:                                             *)
(*   connect_failed  connect_db returned None                (line 111)    *)
(*   no_table        get_active_table returned None          (line 117)    *)
(*   ok              every insert and the commit went through (line 144)   *)
(*   store_error     an insert or the commit raised mysql.connector.Error, *)
(*                   caught at line 138                      (line 144)    *)
(*   value_error     a field did not parse; the exception leaves the call  *)
(* The connection is closed at line 142 on the last three; rows inserted   *)
(* and not committed are rolled back by the server.                        *)
(***************************************************************************)
push_data_to_db(T, clock, b, f) ==
    IF f.kind = "connect"
    THEN [tables |-> T, outcome |-> "connect_failed", ret |-> EmptyList,
          active |-> NoTable, created |-> FALSE]
    ELSE
    LET res == get_active_table(T, clock, f)
        T1  == res.tables
    IN  IF res.active = NoTable
        THEN [tables |-> CloseUncommitted(T1, NoTable, {}, 0), outcome |-> "no_table",
              ret |-> EmptyList, active |-> NoTable, created |-> FALSE]
        ELSE
        LET exists == res.active \in DOMAIN T1
            run == InsertLoop(exists, IF exists THEN T1[res.active].rows ELSE {},
                              {}, b.recs, 1, f)
            bulkFailed == b.fresh > 0 /\ ~exists
            pad == IF bulkFailed THEN 0 ELSE b.fresh
            new == [fresh |-> pad, recs |-> run.new]
            base == [active |-> res.active, created |-> res.created]
        IN  IF run.status = "value_error"
            THEN base @@ [tables |-> CloseUncommitted(T1, res.active, run.own, pad),
                          outcome |-> "value_error", ret |-> EmptyList]
            ELSE IF run.status = "store_error" \/ bulkFailed \/ f.kind = "commit"
            THEN base @@ [tables |-> CloseUncommitted(T1, res.active, run.own, pad),
                          outcome |-> "store_error", ret |-> new]
            ELSE base @@ [tables |-> Commit(T1, res.active, run.own, pad),
                          outcome |-> "ok", ret |-> new]

\* one whole ingestion write, by either caller
PushCycle(b, f) ==
    LET r == push_data_to_db(tables, now, b, f)
    IN  /\ Delivers(b)
        /\ tables' = r.tables
        /\ last' = [batch |-> b, outcome |-> r.outcome, ret |-> r.ret,
                    active |-> r.active, created |-> r.created]
        /\ UNCHANGED <<now, inflight, appvars>>

Next ==
    \/ Tick
    \/ \E b \in Batches : \E f \in Faults(b) : PushCycle(b, f)

Spec == Init /\ [][Next]_vars

(***************************************************************************)
(* The same call statement by statement, for two callers that share the    *)
(* database: the script thread, where the "Fetch Data Now" button runs     *)
(* scheduled_task (lines 252-253), and the BackgroundScheduler's worker    *)
(* thread (lines 345-347).  No lock is taken anywhere in the file.  Each   *)
(* caller has its own connection and transaction; a store error can be     *)
(* raised by any statement.                                                *)
(***************************************************************************)
\* the batches of the interleaved specification
ThreadBatches ==
    {[fresh |-> 0, recs |-> <<r>>] : r \in {RecA3, RecBadTime}}
        \cup {[fresh |-> k, recs |-> <<>>] : k \in BulkSizes}

\* the statements of one batch: its records, or its bulk as one
Items(b) == IF b.fresh > 0 THEN 1 ELSE Len(b.recs)

\* a call that returns without conn.close()
CloseLeaks(C, p) == C

\* line 142: conn.close() in the finally clause
Close(C, p) == C \ {p}

\* push_data_to_db returns or raises: the connection is closed (line 142), the
\* transaction's uncommitted rows are gone
Return(p) ==
    /\ pc' = [pc EXCEPT ![p] = "idle"]
    /\ batch' = [batch EXCEPT ![p] = EmptyList]
    /\ active_table' = [active_table EXCEPT ![p] = NoTable]
    /\ created' = [created EXCEPT ![p] = FALSE]
    /\ idx' = [idx EXCEPT ![p] = 0]
    /\ new_records' = [new_records EXCEPT ![p] = EmptyList]
    /\ txn' = [txn EXCEPT ![p] = EmptyTable]
    /\ conns' = Close(conns, p)

\* lines 23-35 and 109-111: connect_db fails and the call returns []
ConnectError(p) ==
    /\ pc[p] = "idle"
    /\ UNCHANGED vars

\* lines 109-113: connect_db succeeds and the call begins
Connect(p, b) ==
    /\ pc[p] = "idle"
    /\ Delivers(b)
    /\ pc' = [pc EXCEPT ![p] = "scan"]
    /\ batch' = [batch EXCEPT ![p] = b]
    /\ conns' = conns \cup {p}
    /\ UNCHANGED <<tables, now, last, active_table, created, idx, new_records, txn, appvars>>

\* lines 63-71: SHOW TABLES and the COUNT(*) of each table, newest name first.
\* The counts are one consistent read of the committed rows (the transaction's
\* snapshot, taken by its first SELECT).
ScanTables(p) ==
    /\ pc[p] = "scan"
    /\ LET found == FirstWithRoom(tables, DOMAIN tables)
       IN  /\ pc' = [pc EXCEPT ![p] = IF found = NoTable THEN "create" ELSE "insert"]
           /\ active_table' = [active_table EXCEPT ![p] = found]
    /\ UNCHANGED <<tables, now, last, batch, created, idx, new_records, txn, conns, appvars>>

\* lines 77-80 and 116-117: a store error in get_active_table, which returns None
ResolveError(p) ==
    /\ pc[p] = "scan"
    /\ Return(p)
    /\ UNCHANGED <<tables, now, last, appvars>>

\* lines 74-76: name the new table by the clock and create it
CreateTable(p, failed) ==
    /\ pc[p] = "create"
    /\ tables' = create_new_table(tables, TableName(now), failed)
    /\ active_table' = [active_table EXCEPT ![p] = TableName(now)]
    /\ created' = [created EXCEPT ![p] = TRUE]
    /\ pc' = [pc EXCEPT ![p] = "insert"]
    /\ UNCHANGED <<now, last, batch, idx, new_records, txn, conns, appvars>>

\* the keys another open transaction has inserted into the table and not committed
LockedKeys(p, name) ==
    {Key(x) : x \in UNION {txn[q].rows : q \in {q \in Callers \ {p} :
                                                   active_table[q] = name}}}

\* lines 120-135, one pass of the loop: the INSERT IGNORE of the next record (it
\* waits while another transaction holds its key), or of the bulk
Insert(p) ==
    /\ pc[p] = "insert"
    /\ idx[p] < Items(batch[p])
    /\ active_table[p] \in DOMAIN tables
    /\ idx' = [idx EXCEPT ![p] = @ + 1]
    /\ IF batch[p].fresh > 0
       THEN /\ txn' = [txn EXCEPT ![p].pad = batch[p].fresh]
            /\ new_records' = [new_records EXCEPT ![p].fresh = batch[p].fresh]
       ELSE LET record == batch[p].recs[idx[p] + 1]
                ins == InsertIgnore(tables[active_table[p]].rows \cup txn[p].rows,
                                    RowOf[record])
            IN  /\ record \notin Malformed
                /\ Key(RowOf[record]) \notin LockedKeys(p, active_table[p])
                /\ txn' = [txn EXCEPT ![p].rows = ins.rows \ tables[active_table[p]].rows]
                /\ new_records' =
                       [new_records EXCEPT ![p].recs =
                            IF ins.rowcount > 0 THEN Append(@, record) ELSE @]
    /\ UNCHANGED <<tables, now, last, pc, batch, active_table, created, conns, appvars>>

\* lines 126-132: a field of the next record does not parse; ValueError leaves
\* the call through the finally clause
InsertRaises(p) ==
    /\ pc[p] = "insert"
    /\ idx[p] < Items(batch[p])
    /\ batch[p].fresh = 0
    /\ batch[p].recs[idx[p] + 1] \in Malformed
    /\ tables' = CloseUncommitted(tables, active_table[p], txn[p].rows, txn[p].pad)
    /\ Return(p)
    /\ UNCHANGED <<now, last, appvars>>

\* lines 138-144: the INSERT (the table is missing, a lock wait times out, the
\* server fails) or the commit raises a store error; the call returns new_records
StoreError(p) ==
    /\ pc[p] = "insert"
    /\ IF idx[p] < Items(batch[p]) /\ batch[p].fresh = 0
       THEN batch[p].recs[idx[p] + 1] \notin Malformed
       ELSE TRUE
    /\ tables' = CloseUncommitted(tables, active_table[p], txn[p].rows, txn[p].pad)
    /\ Return(p)
    /\ UNCHANGED <<now, last, appvars>>

\* line 137: conn.commit(), then the call returns new_records
CommitTxn(p) ==
    /\ pc[p] = "insert"
    /\ idx[p] = Items(batch[p])
    /\ tables' = Commit(tables, active_table[p], txn[p].rows, txn[p].pad)
    /\ Return(p)
    /\ UNCHANGED <<now, last, appvars>>

NextThreads ==
    \/ Tick
    \/ \E p \in Callers : ConnectError(p)
    \/ \E p \in Callers, b \in ThreadBatches : Connect(p, b)
    \/ \E p \in Callers : ScanTables(p)
    \/ \E p \in Callers : ResolveError(p)
    \/ \E p \in Callers, failed \in BOOLEAN : CreateTable(p, failed)
    \/ \E p \in Callers : Insert(p)
    \/ \E p \in Callers : InsertRaises(p)
    \/ \E p \in Callers : StoreError(p)
    \/ \E p \in Callers : CommitTxn(p)

SpecThreads == Init /\ [][NextThreads]_vars

(***************************************************************************)
(* The script as a whole, lines 341-355: main() runs once (the button, the *)
(* read query), then the scheduler is started and the script loops until   *)
(* it is interrupted.  The scheduler's worker thread runs scheduled_task   *)
(* every ten minutes; an exception of a job is caught and logged by the    *)
(* scheduler, an exception of main() ends the script.  The database        *)
(* outlives the script.  Calls of push_data_to_db are whole here.          *)
(***************************************************************************)
\* lines 99-100: the box of filter_up_data, in degrees
min_lat == 24
max_lat == 28
min_lon == 77
max_lon == 84

\* degrees as a parsed float
Degrees(d) == d * Pow10(FloatDigits)

\* what fetch_lightning_data returns: None (line 92), or the decoded JSON:
\*   empty       {}
\*   other       an object without the key lightning_data
\*   no_inner    {"lightning_data": {}}
\*   null_inner  {"lightning_data": null}
\*   records     {"lightning_data": {"10min_record": [...]}}
NoData == [shape |-> "none", fresh |-> 0, recs |-> <<>>]

Payload(shape, recs) == [shape |-> shape, fresh |-> 0, recs |-> recs]

\* the record lists of the well-formed payloads
RecordLists ==
    {<<RecA3, RecOut, RecB3>>,
     <<RecEdgeLow, RecJustOut, RecEdgeHigh, RecOutLon>>,
     <<RecOut, RecOutLon>>,
     <<RecA3, RecOutBadTime, RecB3>>,
     <<RecA3, RecOutBadLon, RecB3>>}
        \cup UNION {{<<bad, RecA3, RecB3>>, <<RecA3, bad, RecB3>>, <<RecA3, RecB3, bad>>} :
                        bad \in {RecBadLat, RecBadTime, RecBadSensors}}

Payloads ==
    {Payload(shape, <<>>) : shape \in {"empty", "other", "no_inner", "null_inner"}}
        \cup {Payload("records", recs) : recs \in RecordLists}
        \cup {[shape |-> "records", fresh |-> k, recs |-> <<>>] : k \in BulkSizes}

Fetched == {NoData} \cup Payloads

\* the store errors of a cycle of the script
NoFault == [kind |-> "none", at |-> 0]

AppFaults ==
    {NoFault, [kind |-> "connect", at |-> 0], [kind |-> "commit", at |-> 0],
     [kind |-> "insert", at |-> 1]}

\* `if data` (line 149) and `not records` (line 96): None and {} are false
Falsy(data) == data.shape \in {"none", "empty"}

\* a latitude strictly inside the range
LatInExclusive(record) ==
    /\ Degrees(min_lat) < ParseFloat(record.latitude)
    /\ ParseFloat(record.latitude) < Degrees(max_lat)

\* line 104: min_lat <= float(record['latitude']) <= max_lat
LatIn(record) ==
    /\ Degrees(min_lat) <= ParseFloat(record.latitude)
    /\ ParseFloat(record.latitude) <= Degrees(max_lat)

\* line 104: min_lon <= float(record['longitude']) <= max_lon
LonIn(record) ==
    /\ Degrees(min_lon) <= ParseFloat(record.longitude)
    /\ ParseFloat(record.longitude) <= Degrees(max_lon)

\* line 104 for one record, in the order Python evaluates it: the longitude is
\* parsed only when the latitude is in range
Test(record) ==
    IF ~FloatOk(record.latitude) THEN "error"
    ELSE IF ~LatIn(record) THEN "drop"
    ELSE IF ~FloatOk(record.longitude) THEN "error"
    ELSE IF LonIn(record) THEN "keep"
    ELSE "drop"

\* the test of each record of the universe, computed once
TestOf == [r \in Universe |-> Test(r)]

\* lines 95-105: [raised, list].  A payload whose lightning_data is null raises
\* TypeError at line 96, a coordinate that does not parse ValueError at line 104.
filter_up_data(records) ==
    IF Falsy(records) \/ records.shape \in {"other", "no_inner"}
    THEN [raised |-> FALSE, list |-> EmptyList]
    ELSE IF records.shape = "null_inner"
    THEN [raised |-> TRUE, list |-> EmptyList]
    ELSE IF \E i \in 1..Len(records.recs) : TestOf[records.recs[i]] = "error"
    THEN [raised |-> TRUE, list |-> EmptyList]
    ELSE [raised |-> FALSE,
          list |-> [fresh |-> records.fresh,
                    recs |-> SelectSeq(records.recs, LAMBDA r : TestOf[r] = "keep")]]

\* a run of scheduled_task that did not come to push_data_to_db
Quiet(T, outcome) ==
    [tables |-> T, batch |-> EmptyList, push |-> "none", n |-> 0, outcome |-> outcome]

\* lines 151-158: the report of scheduled_task on the call r of push_data_to_db
Report(up_records, r) ==
    [tables |-> r.tables, batch |-> up_records, push |-> r.outcome,
     n |-> IF r.outcome = "value_error" THEN 0 ELSE Size(r.ret),
     outcome |-> IF r.outcome = "value_error" THEN "raised"
                 ELSE IF Size(r.ret) > 0 THEN "pushed"
                 ELSE "no_new"]

\* lines 147-160: one run of scheduled_task on what the fetch returned:
\*   fetch_failed  the warning of line 160
\*   raised        an exception left the function
\*   pushed        "New data pushed", n records (lines 154-155)
\*   no_new        "No new data" (lines 157-158)
scheduled_task(T, clock, data, f) ==
    IF Falsy(data) THEN Quiet(T, "fetch_failed")
    ELSE IF filter_up_data(data).raised THEN Quiet(T, "raised")
    ELSE Report(filter_up_data(data).list,
                push_data_to_db(T, clock, filter_up_data(data).list, f))

\* the record of a run
Task(who, data, r) ==
    [who |-> who, data |-> data, outcome |-> r.outcome, batch |-> r.batch,
     push |-> r.push, n |-> r.n]

\* line 282: LIMIT 1000
Limit == 1000

\* line 260: the time ranges of the select box
Ranges == {"Last Hour", "Last 24 Hours", "Last 7 Days", "Last 30 Days", "All Time"}

\* lines 274-279: the interval of a range, in seconds
IntervalSeconds(range) ==
    CASE range = "Last Hour" -> 3600
      [] range = "Last 24 Hours" -> 24 * 3600
      [] range = "Last 7 Days" -> 7 * 24 * 3600
      [] range = "Last 30 Days" -> 30 * 24 * 3600

\* the days of 2024 before each month
DaysBefore == <<0, 31, 60, 91, 121, 152, 182, 213, 244, 274, 305, 335>>

\* a datetime of 2024 or later in seconds since the start of 2024
Seconds(t) ==
    ((((t[1] - 2024) * 366 + DaysBefore[t[2]] + t[3] - 1) * 24 + t[4]) * 60 + t[5]) * 60 + t[6]

\* the wall clock at second 0 of the model, and the time of the strikes of a
\* bulk batch (older than every range but "All Time")
ClockStart == <<2024, 7, 3, 0, 0, 0>>

BulkTime == <<2024, 6, 1, 0, 0, 0>>

\* line 280: time >= DATE_SUB(NOW(), INTERVAL ...)
InWindow(time, range, clock) ==
    Seconds(time) >= Seconds(ClockStart) + clock - IntervalSeconds(range)

\* lines 268-285: the result of the read query.  SHOW TABLES lists the names in
\* ascending order; the query is SELECT * FROM t1 UNION ALL ... SELECT * FROM tk
\* [WHERE ...] ORDER BY time DESC LIMIT 1000: the WHERE clause belongs to the
\* last SELECT, ORDER BY and LIMIT to the whole union.  With no table the text is
\* not a statement and the store raises an error (line 336).
ReadQuery(T, range, clock) ==
    IF DOMAIN T = {}
    THEN [outcome |-> "error", range |-> range, rows |-> {}, pad |-> 0]
    ELSE
    LET final == CHOOSE n \in DOMAIN T : \A m \in DOMAIN T : m = n \/ LexLess(m, n)
        Passes(n, time) ==
            range = "All Time" \/ n # final \/ InWindow(time, range, clock)
        rows == UNION {{<<n, x>> : x \in {y \in T[n].rows : Passes(n, y.time)}} :
                          n \in DOMAIN T}
        pad == PadSum(T, {n \in DOMAIN T : Passes(n, BulkTime)})
        Newer(time) ==
            Cardinality({e \in rows : Seconds(e[2].time) > Seconds(time)})
                + (IF Seconds(BulkTime) > Seconds(time) THEN pad ELSE 0)
        room == Limit - Newer(BulkTime)
    IN  [outcome |-> "rows", range |-> range,
         rows |-> {e \in rows : Newer(e[2].time) < Limit},
         pad |-> IF room <= 0 THEN 0 ELSE IF pad < room THEN pad ELSE room]

\* the state of the script after the run r of scheduled_task, if there was one
ButtonDone(pressed, data, r) ==
    /\ tables' = r.tables
    /\ task' = IF pressed THEN Task("manual", data, r) ELSE task
    /\ app' = [script |-> IF r.outcome = "raised" THEN "crashed" ELSE "main",
               scheduler |-> "none"]

\* the state after the job's run r of scheduled_task
JobDone(data, r) ==
    /\ tables' = r.tables
    /\ task' = Task("timer", data, r)

\* lines 341-342 and 231-253: the script is started and main() comes to the
\* button.  When it was pressed scheduled_task runs in the script's thread, and
\* an exception of it leaves main() and ends the script before the scheduler
\* exists.
MainButton(pressed, data, f) ==
    /\ app.script \in {"off", "crashed"}
    /\ pressed => Delivers(data)
    /\ ButtonDone(pressed, data,
                  IF pressed THEN scheduled_task(tables, now, data, f)
                  ELSE Quiet(tables, "none"))
    /\ UNCHANGED <<now, last, inflight, view>>

\* lines 255-347: the rest of main(), the read query when connect_db gave a
\* connection (lines 264-285), and then the scheduler is started and the script
\* enters its loop
MainRead(range, connected) ==
    /\ app.script = "main"
    /\ view' = IF connected THEN ReadQuery(tables, range, now)
               ELSE [NoView EXCEPT !.outcome = "no_connection"]
    /\ app' = [script |-> "loop", scheduler |-> "running"]
    /\ UNCHANGED <<tables, now, last, inflight, task>>

\* lines 346-347: the interval job, scheduled_task in the scheduler's thread; the
\* scheduler catches and logs an exception of the job
TimerJob(data, f) ==
    /\ app.scheduler = "running"
    /\ Delivers(data)
    /\ JobDone(data, scheduled_task(tables, now, data, f))
    /\ UNCHANGED <<now, last, inflight, app, view>>

\* lines 354-355: KeyboardInterrupt, scheduler.shutdown(), the script ends
Stop ==
    /\ app.script = "loop"
    /\ app' = NotStarted
    /\ task' = NoTask
    /\ view' = NoView
    /\ UNCHANGED <<tables, now, last, inflight>>

NextApp ==
    \/ Tick
    \/ MainButton(FALSE, NoData, NoFault)
    \/ \E data \in Fetched, f \in AppFaults : MainButton(TRUE, data, f)
    \/ \E range \in Ranges, connected \in BOOLEAN : MainRead(range, connected)
    \/ \E data \in Fetched, f \in AppFaults : TimerJob(data, f)
    \/ Stop

SpecApp == Init /\ [][NextApp]_vars

(***************************************************************************)
(* Properties.  A step of Spec that leaves the clock alone is one whole    *)
(* call of push_data_to_db: `tables` is the store before it, tables' the   *)
(* store after it, and last' describes the call.                           *)
(***************************************************************************)
\* the rows of all tables, each with the table that holds it
Stored(T) == UNION {{<<n, x>> : x \in T[n].rows} : n \in DOMAIN T}

\* the keys stored in any table
StoredKeys(T) == {Key(e[2]) : e \in Stored(T)}

\* the number of rows of all tables
TotalCount(T) == PadSum(T, DOMAIN T) + Cardinality(Stored(T))

\* the tables of the store before the call hold what they held; a table the
\* call created holds nothing
SameRows(T, U) ==
    /\ DOMAIN T \subseteq DOMAIN U
    /\ \A n \in DOMAIN U : U[n] = IF n \in DOMAIN T THEN T[n] ELSE EmptyTable

IsCall == now' = now /\ <<tables, last>>' # <<tables, last>>

\* C1: no two stored rows, of one table or of two, have the same
\* (latitude, longitude, time)
C1_NoStrikeStoredTwice ==
    \A e1 \in Stored(tables), e2 \in Stored(tables) :
        Key(e1[2]) = Key(e2[2]) => e1 = e2

\* C2: a call that succeeds on the batch of the successful call just before it
\* returns the empty list and stores nothing
C2_SecondRunAddsNothing ==
    [][(/\ IsCall
        /\ last.outcome = "ok" /\ last'.outcome = "ok"
        /\ last.batch.fresh = 0
        /\ last'.batch = last.batch)
          => (last'.ret = EmptyList /\ TotalCount(tables') = TotalCount(tables))]_vars

\* C3: no table ever holds more rows than the capacity of 50,000
C3_ShardWithinCapacity ==
    \A n \in DOMAIN tables : Count(tables[n]) <= Capacity

\* C4: when get_active_table finds no table with room and the table it returns
\* exists afterwards, that table did not exist before the call
C4_FullStoreGetsNewShard ==
    [][(/\ IsCall
        /\ last'.created
        /\ last'.active \in DOMAIN tables')
          => last'.active \notin DOMAIN tables]_vars

\* the records of a returned list are rows of the table the call wrote to
Persisted(T, list, name) ==
    \A i \in 1..Len(list.recs) :
        /\ name \in DOMAIN T
        /\ \E x \in T[name].rows : Key(x) = Key(RowOf[list.recs[i]])

\* C5: whenever push_data_to_db returns a list, the list is what the call added
\* to the store: its records are committed rows, and it is as long as the store
\* has grown
C5_ReturnsWhatWasStored ==
    [][(IsCall /\ last'.outcome # "value_error")
          => /\ Persisted(tables', last'.ret, last'.active)
             /\ Size(last'.ret) = TotalCount(tables') - TotalCount(tables)]_vars

\* C6: a call ended by a store failure (no connection, no active table, an error
\* of an insert or of the commit) leaves every table with the rows it had
C6_AbortedCycleStoresNothing ==
    [][(IsCall /\ last'.outcome \in {"connect_failed", "no_table", "store_error"})
          => SameRows(tables, tables')]_vars

\* a store error ended the call after a record of the batch had been inserted
C6_Witness ==
    /\ last.outcome = "store_error"
    /\ Len(last.ret.recs) > 0

\* a caller is between the start of shard resolution and the end of the commit
InCycle(p) == pc[p] \in {"scan", "create", "insert"}

\* C7: the manual cycle and the timer's cycle are never both between shard
\* resolution and the end of the commit
C7_CyclesSerialized == ~(InCycle("manual") /\ InCycle("timer"))

\* C8: two overlapping calls of get_active_table that both found every table
\* full return the same table
C8_OneShardForBoth ==
    \A p \in Callers, q \in Callers :
        (/\ pc[p] = "insert" /\ pc[q] = "insert"
         /\ created[p] /\ created[q]
         /\ {active_table[p], active_table[q]} \subseteq DOMAIN tables)
            => active_table[p] = active_table[q]

\* C9: at most one table has room, and every table older than another is full
C9_OneActiveShard ==
    /\ Cardinality({n \in DOMAIN tables : Count(tables[n]) < Capacity}) <= 1
    /\ \A n \in DOMAIN tables, m \in DOMAIN tables :
           LexLess(n, m) => Count(tables[n]) >= Capacity

\* a full table and a newer one that holds rows and has room
C9_Witness ==
    \E n \in DOMAIN tables, m \in DOMAIN tables :
        /\ LexLess(n, m)
        /\ Count(tables[n]) >= Capacity
        /\ Count(tables[m]) < Capacity /\ tables[m].rows # {}

\* the places of a batch whose record has the key of row x
Places(recs, x) ==
    {i \in 1..Len(recs) : recs[i] \notin Malformed /\ Key(RowOf[recs[i]]) = Key(x)}

\* C10: when a successful call had several records of one strike that was not
\* stored, one row of that strike is stored afterwards, it is the row of the
\* first of those records, and of those records the list returns only the first
C10_FirstOfDuplicatesWins ==
    [][(IsCall /\ last'.outcome = "ok")
          => \A i \in 1..Len(last'.batch.recs) :
                LET recs  == last'.batch.recs
                    x     == RowOf[recs[i]]
                    same  == Places(recs, x)
                IN  (/\ Key(x) \notin StoredKeys(tables)
                     /\ Cardinality(same) > 1
                     /\ \A j \in same : i <= j)
                       => /\ {e \in Stored(tables') : Key(e[2]) = Key(x)}
                               = {<<last'.active, x>>}
                          /\ SelectSeq(last'.ret.recs,
                                       LAMBDA r : Key(RowOf[r]) = Key(x)) = <<recs[i]>>]_vars

\* a successful call whose batch named one strike twice, with different sensor
\* counts, and returned a record
C10_Witness ==
    /\ last.outcome = "ok"
    /\ \E i \in 1..Len(last.batch.recs), j \in 1..Len(last.batch.recs) :
           /\ i < j
           /\ Key(RowOf[last.batch.recs[i]]) = Key(RowOf[last.batch.recs[j]])
           /\ RowOf[last.batch.recs[i]] # RowOf[last.batch.recs[j]]
    /\ Len(last.ret.recs) = 1

\* C15: a caller whose call of push_data_to_db has returned or raised, by whatever
\* path, holds no open connection
C15_NoConnectionLeft ==
    \A p \in Callers : pc[p] = "idle" => p \notin conns

\* both calls are over, and one of them left on an error path after it had
\* connected and created a table: the table exists and holds no row
C15_Witness ==
    /\ \A p \in Callers : pc[p] = "idle"
    /\ conns = {}
    /\ \E n \in DOMAIN tables : Count(tables[n]) = 0

\* C16: no step of a cycle removes a table, removes or changes a committed row,
\* and a table is created only when no existing table has room
C16_ShardsAppendOnly ==
    [][/\ \A n \in DOMAIN tables :
              /\ n \in DOMAIN tables'
              /\ tables[n].rows \subseteq tables'[n].rows
              /\ tables[n].pad <= tables'[n].pad
        /\ DOMAIN tables' # DOMAIN tables
              => \A m \in DOMAIN tables : Count(tables[m]) >= Capacity]_vars

\* a table was created beside a full one, which still holds its rows
C16_Witness ==
    \E n \in DOMAIN tables, m \in DOMAIN tables :
        /\ LexLess(n, m)
        /\ Count(tables[n]) >= Capacity
        /\ tables[n].rows # {}

\* the tables with fewer than 50,000 rows
NonFull(T) == {n \in DOMAIN T : Count(T[n]) < Capacity}

\* C17: when a table has fewer than 50,000 rows as get_active_table reads the
\* counts, the call returns the non-full table of the greatest name, whatever an
\* earlier call returned, and creates none
C17_NewestNonFullChosen ==
    [][\A p \in Callers :
          (/\ pc[p] = "scan" /\ pc'[p] \in {"create", "insert"}
           /\ NonFull(tables) # {})
             => /\ pc'[p] = "insert"
                /\ active_table'[p] \in NonFull(tables)
                /\ \A m \in NonFull(tables) :
                       m = active_table'[p] \/ LexLess(m, active_table'[p])
                /\ created'[p] = FALSE
                /\ tables' = tables]_vars

\* a call was given the newer of two tables that both have room
C17_Witness ==
    \E p \in Callers, n \in DOMAIN tables :
        /\ pc[p] = "insert" /\ ~created[p]
        /\ active_table[p] \in NonFull(tables)
        /\ n \in NonFull(tables)
        /\ LexLess(n, active_table[p])

\* a step of SpecApp in which scheduled_task ran, by the button or by the timer:
\* task' describes the run, `tables` is the store before it and tables' after it
IsTask == now' = now /\ task'.who # "none" /\ <<tables, task>>' # <<tables, task>>

\* the payloads without the key lightning_data or without the nested key
Keyless == {"empty", "other", "no_inner", "null_inner"}

\* C11: a run of scheduled_task on a payload that lacks lightning_data or the
\* nested 10min_record raises nothing, leaves the store as it was (no row, no
\* new table) and reports no new record
C11_KeylessPayloadIsNoData ==
    [][(IsTask /\ task'.data.shape \in Keyless)
          => /\ task'.outcome # "raised"
             /\ task'.outcome # "pushed" /\ task'.n = 0
             /\ tables' = tables]_vars

\* the record lies in the box, both bounds included
InsideBox(record) ==
    IF FloatOk(record.latitude) /\ FloatOk(record.longitude)
    THEN /\ ParseFloat(record.latitude) \in Degrees(24)..Degrees(28)
         /\ ParseFloat(record.longitude) \in Degrees(77)..Degrees(84)
    ELSE FALSE

\* the records of the universe that lie in the box
BoxRecords == {r \in Universe : InsideBox(r)}

\* C12: when filter_up_data returns on a payload with both keys, the list is the
\* payload's records with latitude in [24, 28] and longitude in [77, 84], in the
\* payload's order and as they were
C12_FilterKeepsTheBox ==
    [][(IsTask /\ task'.data.shape = "records" /\ task'.push # "none")
          => /\ task'.batch.recs = SelectSeq(task'.data.recs, LAMBDA r : r \in BoxRecords)
             /\ task'.batch.fresh = task'.data.fresh]_vars

\* the filter was given two records on the boundary and two outside, and
\* returned the two on the boundary
C12_Witness ==
    /\ task.push # "none"
    /\ task.data.recs = <<RecEdgeLow, RecJustOut, RecEdgeHigh, RecOutLon>>
    /\ task.batch.recs = <<RecEdgeLow, RecEdgeHigh>>

\* the run of scheduled_task failed: the fetch, the connection, the store or the
\* parsing of a record
Failed(t) ==
    \/ t.outcome = "fetch_failed"
    \/ t.outcome = "raised" /\ t.data.shape = "records"
    \/ t.push \in {"connect_failed", "no_table", "store_error"}

\* C13: after a run of scheduled_task that failed, by the button or by the timer,
\* the scheduler is running or the script is on its way to start it
C13_ScheduleSurvivesFailure ==
    Failed(task) => (app.scheduler = "running" \/ app.script = "main")

\* C14: the rows of a read with a time range other than "All Time" all lie in
\* the range, whichever table holds them; every stored row of the range is
\* among them while they are fewer than 1000, and they are at most 1000
C14_ReadKeepsTheWindow ==
    [][(/\ app.script = "main" /\ app'.script = "loop"
        /\ view'.outcome = "rows" /\ view'.range # "All Time")
          => /\ \A e \in view'.rows : InWindow(e[2].time, view'.range, now)
             /\ view'.pad > 0 => InWindow(BulkTime, view'.range, now)
             /\ Cardinality(view'.rows) + view'.pad <= Limit
             /\ \A e \in Stored(tables) :
                    InWindow(e[2].time, view'.range, now) /\ TotalCount(tables) <= Limit
                        => e \in view'.rows]_vars

Parsed ==
    {r \in Universe :
        \/ ~FloatOk(r.latitude)
        \/ /\ ParseFloat(r.latitude) \in Degrees(24)..Degrees(28)
           /\ ~FloatOk(r.longitude)
        \/ InsideBox(r) /\ r \in Malformed}

====
